---- MODULE Spec2Model ----
(***************************************************************************)
(* Sync job service of surveysync-connect (the in-memory job registry and  *)
(* its timer-driven batch loop), modelled as a state machine.              *)
(*                                                                         *)
(* A SyncProgress object lives on the heap; the registry `activeJobs` maps *)
(* a job id to a reference to it.  Job ids are `sync_<ms>_<random>`; they   *)
(* are modelled as fresh tokens 1, 2, ... (the k-th start gets id k), and   *)
(* the object created by the k-th start has heap address k, so `job[k]` is *)
(* the object and `k \in activeJobs` says the registry still maps id k.     *)
(*                                                                         *)
(* Each start registers two timers: a one-shot timer that moves the job to *)
(* running and a repeating timer that processes one batch per tick.  A     *)
(* timer callback runs to completion (one JavaScript task), so each is one *)
(* action; the two timers of a job are not ordered against each other.     *)
(*                                                                         *)
(* The second half models the sync client (the SyncExecution component)    *)
(* against the sync API: its React state, its poll interval, its cooldown  *)
(* countdown and the requests it has outstanding.  Spec runs the service,  *)
(* ClientSpec runs the client; each leaves the other's variables alone.    *)
(***************************************************************************)
EXTENDS Integers, Sequences, FiniteSets, TLC

\* ---------------------------------------------------------------- bounds
MaxJobs == 2          \* jobs started in one run
MaxExtra == 1         \* totalRecords ranges over MinTotal .. MinTotal + MaxExtra
MaxRecordErrors == 1  \* record-level errors simulated per job

\* ------------------------------------------------------- program constants
batchSize == 25
MinTotal == 100       \* Math.floor(Math.random() * 500) + 100
TotalSpan == 500

VARIABLES
    activeJobs,       \* keys of the registry Map (key k maps to object k)
    job,              \* heap: [1..nextJob -> SyncProgress object]
    config,           \* the SyncJobConfig each job was started with
    processed,        \* the closure variable `processed` of each job's batch timer
    timeoutPending,   \* the one-shot setTimeout of each job has not fired yet
    intervalActive,   \* the setInterval of each job has not been cleared
    lastCall          \* the latest API call and what it returned to its caller

vars == <<activeJobs, job, config, processed, timeoutPending, intervalActive, lastCall>>

\* state of the sync client (the SyncExecution component) and of the backend it talks to
VARIABLES
    syncStatus,       \* useState `status`: ready | syncing | complete | failed
    clientProgress,   \* useState `progress`: <<>> is null, <<p>> holds snapshot p
    retryUntilMs,     \* useState `retryUntilMs`: 0 is null
    nowTick,          \* useState `nowTick`
    pollRef,          \* pollRef.current: <<>> null, <<id>> the interval that polls job id
    pollTimers,       \* job ids polled by the intervals that have not been cleared
    requests,         \* requests in flight, in the order they were sent
    backend,          \* jobs of the sync service: backend[k] is job k
    now,              \* Date.now()
    attempt,          \* number of start requests sent so far
    startedJob,       \* startedJob[a]: <<id>> once the start of attempt a returned job id
    cooldownEnd,      \* latest instant t + N * 1000 of a rate-limited failure seen at t
    lastEvent         \* the handler or environment step that ran last

clientVars ==
    <<syncStatus, clientProgress, retryUntilMs, nowTick, pollRef, pollTimers,
      requests, backend, now, attempt, startedJob, cooldownEnd, lastEvent>>

\* state of the database client (the Postgres API module)
VARIABLES
    currentConnection, \* `currentConnection`: <<>> is null, <<credentials>> a connection
    schemas,           \* the schemas and tables of the target database (`mockSchemas`)
    dbCall             \* the latest call of the database API and its outcome

dbVars == <<currentConnection, schemas, dbCall>>

\* state of the session module and of the SurveyCTO login in progress
VARIABLES
    inMemoryToken,     \* `inMemoryToken`: <<>> is null, <<t>> holds token t
    localStorageToken, \* localStorage item 'surveysync.sessionToken': <<>> is absent
    authCall           \* the latest authenticateSurveyCTO call and where it stands

authVars == <<inMemoryToken, localStorageToken, authCall>>

allVars == <<vars, clientVars, dbVars, authVars>>

nextJob == Len(job)
JobIds == 1..MaxJobs
SyncModes == {"insert", "upsert", "replace"}
TerminalStatuses == {"completed", "failed", "cancelled"}

\* ------------------------------------------------------------ SyncJobConfig
\* a SyncJobConfig; "" stands for a field the caller left out
SyncJobConfig(formId, targetSchema, targetTable, syncMode, createNewTable) ==
    [formId |-> formId, targetSchema |-> targetSchema, targetTable |-> targetTable,
     syncMode |-> syncMode, createNewTable |-> createNewTable]

\* the configuration the wizard builds from its selections: an existing form,
\* schema and table, one of the three modes, no table creation
WizardConfig(mode) == SyncJobConfig("household_survey_2024", "public", "household_data", mode, FALSE)

\* configurations a caller of startSyncJob can pass: the wizard's, a table to
\* create under a free and under a taken name, one with each required field
\* left out, and one whose syncMode is none of the three
Configs ==
    {WizardConfig(mode) : mode \in SyncModes} \cup
    {SyncJobConfig("household_survey_2024", "public", "new_table", "insert", TRUE),
     SyncJobConfig("household_survey_2024", "public", "household_data", "insert", TRUE),
     SyncJobConfig("", "public", "household_data", "insert", FALSE),
     SyncJobConfig("household_survey_2024", "", "household_data", "insert", FALSE),
     SyncJobConfig("household_survey_2024", "public", "", "insert", FALSE),
     SyncJobConfig("household_survey_2024", "public", "household_data", "merge", FALSE)}

Min(a, b) == IF a <= b THEN a ELSE b

\* Math.floor(Math.random() * 500) + 100, restricted to the model's range
TotalRecordsChoices == MinTotal .. (MinTotal + Min(MaxExtra, TotalSpan - 1))

\* ------------------------------------------------------------ SyncError
CancelError == [recordId |-> "", field |-> "", message |-> "Job cancelled by user"]
RecordError ==
    [recordId |-> "REC", field |-> "monthly_income",
     message |-> "Value exceeds maximum allowed length"]

RecordErrorCount(errs) == Cardinality({i \in 1..Len(errs) : errs[i].recordId # ""})

\* --------------------------------------------------------- SyncProgress
\* a start that registers the job as already running
NewProgressRunning(jobId) ==
    [jobId |-> jobId,
     status |-> "running",
     totalRecords |-> 0,
     processedRecords |-> 0,
     insertedRecords |-> 0,
     updatedRecords |-> 0,
     skippedRecords |-> 0,
     errors |-> <<>>,
     completedAt |-> "unset"]

NewProgress(jobId) ==
    [jobId |-> jobId,
     status |-> "pending",
     totalRecords |-> 0,
     processedRecords |-> 0,
     insertedRecords |-> 0,
     updatedRecords |-> 0,
     skippedRecords |-> 0,
     errors |-> <<>>,
     completedAt |-> "unset"]

\* ------------------------------------------------------ target database
Column(name, type, isPrimaryKey) == [name |-> name, type |-> type, isPrimaryKey |-> isPrimaryKey]

\* the schemas and tables of the target database
mockSchemas ==
    << [name |-> "public",
        tables |-> <<
          [name |-> "household_data", primaryKey |-> "id",
           columns |-> << Column("id", "text", TRUE),
                          Column("created_at", "timestamptz", FALSE),
                          Column("household_id", "text", FALSE),
                          Column("respondent_name", "text", FALSE),
                          Column("household_size", "integer", FALSE) >>],
          [name |-> "health_records", primaryKey |-> "record_id",
           columns |-> << Column("record_id", "text", TRUE),
                          Column("patient_id", "text", FALSE),
                          Column("assessment_date", "date", FALSE),
                          Column("diagnosis", "text", FALSE) >>] >>],
       [name |-> "surveys",
        tables |-> <<
          [name |-> "raw_responses", primaryKey |-> "key",
           columns |-> << Column("key", "text", TRUE),
                          Column("form_id", "text", FALSE),
                          Column("submitted_at", "timestamptz", FALSE),
                          Column("data", "jsonb", FALSE) >>] >>],
       [name |-> "staging", tables |-> <<>>] >>

NoCall == [op |-> "none", id |-> 0, ok |-> FALSE, value |-> <<>>, seen |-> <<>>]

\* a call of the database API: its arguments, whether it threw, what it returned
DbCall(op, formFields, targetSchema, targetTable, thrown, result) ==
    [op |-> op, formFields |-> formFields, targetSchema |-> targetSchema,
     targetTable |-> targetTable, thrown |-> thrown, result |-> result]

NoDbCall == DbCall("none", <<>>, "", "", FALSE, <<>>)

\* one call of authenticateSurveyCTO: `pc` is where the async function stands
\* ("idle": never called, "session": awaiting the session request, "forms":
\* awaiting the forms request, "done": returned), `before` the stored token
\* when it was called, `result` <<>> or <<the SurveyCTOAuthResponse returned>>
AuthCall(source, pc, credentials, before, result) ==
    [source |-> source, pc |-> pc, credentials |-> credentials,
     before |-> before, result |-> result]

NoAuthCall == AuthCall("", "idle", <<>>, <<>>, <<>>)

Init ==
    /\ activeJobs = {}
    /\ job = <<>>
    /\ config = <<>>
    /\ processed = <<>>
    /\ timeoutPending = <<>>
    /\ intervalActive = <<>>
    /\ lastCall = NoCall
    /\ syncStatus = "ready"
    /\ clientProgress = <<>>
    /\ retryUntilMs = 0
    /\ nowTick = 0
    /\ pollRef = <<>>
    /\ pollTimers = {}
    /\ requests = <<>>
    /\ backend = <<>>
    /\ now = 0
    /\ attempt = 0
    /\ startedJob = <<>>
    /\ cooldownEnd = 0
    /\ lastEvent = "mount"
    /\ currentConnection = <<>>
    /\ schemas = mockSchemas
    /\ dbCall = NoDbCall
    /\ inMemoryToken = <<>>
    /\ localStorageToken = <<>>
    /\ authCall = NoAuthCall

\* startSyncJob(config): registers a pending job, starts its two timers and
\* returns the registered object itself.
startSyncJob(cfg) ==
    /\ nextJob < MaxJobs
    /\ LET jobId == nextJob + 1
           progress == NewProgress(jobId)
       IN  /\ job' = Append(job, progress)
           /\ activeJobs' = activeJobs \cup {jobId}
           /\ config' = Append(config, cfg)
           /\ processed' = Append(processed, 0)
           /\ timeoutPending' = Append(timeoutPending, TRUE)
           /\ intervalActive' = Append(intervalActive, TRUE)
           /\ lastCall' = [op |-> "start", id |-> jobId, ok |-> TRUE,
                           value |-> <<jobId>>, seen |-> <<progress>>]
    /\ UNCHANGED <<clientVars, dbVars, authVars>>

\* a lookup that finds every object ever created, cleared or not
LookupCreated(jobId) == IF jobId \in DOMAIN job THEN <<jobId>> ELSE <<>>

\* activeJobs.get(jobId): a reference to the registered object, or nothing
Lookup(jobId) == IF jobId \in activeJobs THEN <<jobId>> ELSE <<>>

\* what a caller reads through a returned reference at the moment of return
Deref(value) == IF value = <<>> THEN <<>> ELSE <<job[value[1]]>>

\* getSyncProgress(jobId): `activeJobs.get(jobId) || null`
getSyncProgress(jobId) ==
    /\ lastCall' = [op |-> "get", id |-> jobId, ok |-> Lookup(jobId) # <<>>,
                    value |-> Lookup(jobId), seen |-> Deref(Lookup(jobId))]
    /\ UNCHANGED <<activeJobs, job, config, processed, timeoutPending, intervalActive>>
    /\ UNCHANGED <<clientVars, dbVars, authVars>>

\* a cancel guard that forgets the status test
CanCancelAnyStatus(jobId) == Lookup(jobId) # <<>>

\* the guard of cancelSyncJob: `job && job.status === 'running'`
CanCancel(jobId) == Lookup(jobId) # <<>> /\ job[jobId].status = "running"

\* the status cancelSyncJob assigns
CancelStatus == "failed"

\* a cancel that replaces the error list by the cancellation error
cancelSyncJobResetsErrors(jobId) ==
    /\ IF CanCancel(jobId)
          THEN job' = [job EXCEPT ![jobId].status = CancelStatus,
                                  ![jobId].errors = <<CancelError>>]
          ELSE job' = job
    /\ lastCall' = [op |-> "cancel", id |-> jobId, ok |-> CanCancel(jobId),
                    value |-> <<>>, seen |-> <<>>]
    /\ UNCHANGED <<activeJobs, config, processed, timeoutPending, intervalActive>>
    /\ UNCHANGED <<clientVars, dbVars, authVars>>

\* cancelSyncJob(jobId)
cancelSyncJob(jobId) ==
    /\ IF CanCancel(jobId)
          THEN job' = [job EXCEPT ![jobId].status = CancelStatus,
                                  ![jobId].errors = Append(@, CancelError)]
          ELSE job' = job
    /\ lastCall' = [op |-> "cancel", id |-> jobId, ok |-> CanCancel(jobId),
                    value |-> <<>>, seen |-> <<>>]
    /\ UNCHANGED <<activeJobs, config, processed, timeoutPending, intervalActive>>
    /\ UNCHANGED <<clientVars, dbVars, authVars>>

\* a timeout callback that moves every job that is still pending to running
RunningTimeoutAllPending(jobId) ==
    /\ jobId \in DOMAIN job
    /\ timeoutPending[jobId]
    /\ \E total \in TotalRecordsChoices :
          job' = [k \in DOMAIN job |->
                    IF k = jobId \/ job[k].status = "pending"
                       THEN [job[k] EXCEPT !.status = "running", !.totalRecords = total]
                       ELSE job[k]]
    /\ timeoutPending' = [timeoutPending EXCEPT ![jobId] = FALSE]
    /\ UNCHANGED <<activeJobs, config, processed, intervalActive, lastCall>>
    /\ UNCHANGED <<clientVars, dbVars, authVars>>

\* the setTimeout callback of simulateSyncProgress: it writes through the
\* object reference captured when the job was started.
RunningTimeout(jobId) ==
    /\ jobId \in DOMAIN job
    /\ timeoutPending[jobId]
    /\ \E total \in TotalRecordsChoices :
          job' = [job EXCEPT ![jobId].status = "running",
                             ![jobId].totalRecords = total]
    /\ timeoutPending' = [timeoutPending EXCEPT ![jobId] = FALSE]
    /\ UNCHANGED <<activeJobs, config, processed, intervalActive, lastCall>>
    /\ UNCHANGED <<clientVars, dbVars, authVars>>

\* a batch that is never truncated
ToProcessFullBatch(total, done) == batchSize

\* Math.min(batchSize, remaining)
ToProcess(total, done) == Min(batchSize, total - done)

\* Math.floor(n * pct / 100) for the percentages of the batch split
FloorPct(n, pct) == (n * pct) \div 100

\* a split whose upsert branch forgets the updated records when it derives skipped
BatchCountsSkipOff(mode, toProcess) ==
    IF mode = "upsert"
       THEN [inserted |-> FloorPct(toProcess, 60), updated |-> FloorPct(toProcess, 35),
             skipped |-> toProcess - FloorPct(toProcess, 60)]
       ELSE [inserted |-> FloorPct(toProcess, 85), updated |-> 0,
             skipped |-> toProcess - FloorPct(toProcess, 85)]

\* the split of one batch between insert / update / skip
BatchCounts(mode, toProcess) ==
    IF mode = "upsert"
       THEN LET inserted == FloorPct(toProcess, 60)
                updated == FloorPct(toProcess, 35)
            IN  [inserted |-> inserted, updated |-> updated,
                 skipped |-> toProcess - inserted - updated]
       ELSE LET inserted == FloorPct(toProcess, 85)
            IN  [inserted |-> inserted, updated |-> 0,
                 skipped |-> toProcess - inserted]

\* an interval that only stops when the job has left the registry
IntervalStopsMissingOnly(jobId) == Lookup(jobId) = <<>>

\* the interval stops itself when `!job || job.status !== 'running'`
IntervalStops(jobId) == Lookup(jobId) = <<>> \/ job[jobId].status # "running"

\* `processed >= job.totalRecords`
IsComplete(done, total) == done >= total

\* a tick that gives the job up when a record of its batch is refused
BatchTickAbortsOnError(jobId) ==
    /\ jobId \in DOMAIN job
    /\ intervalActive[jobId]
    /\ IF IntervalStops(jobId)
          THEN /\ intervalActive' = [intervalActive EXCEPT ![jobId] = FALSE]
               /\ UNCHANGED <<job, processed>>
          ELSE \E hasError \in BOOLEAN :
               /\ hasError => RecordErrorCount(job[jobId].errors) < MaxRecordErrors
               /\ LET old == job[jobId]
                      toProcess == ToProcess(old.totalRecords, processed[jobId])
                      done == processed[jobId] + toProcess
                      counts == BatchCounts(config[jobId].syncMode, toProcess)
                      complete == IsComplete(done, old.totalRecords)
                  IN  /\ processed' = [processed EXCEPT ![jobId] = done]
                      /\ job' = [job EXCEPT ![jobId] =
                            [old EXCEPT
                               !.processedRecords = done,
                               !.insertedRecords = @ + counts.inserted,
                               !.updatedRecords = @ + counts.updated,
                               !.skippedRecords = @ + counts.skipped,
                               !.errors = IF hasError THEN Append(@, RecordError) ELSE @,
                               !.status = IF hasError THEN "failed"
                                          ELSE IF complete THEN "completed" ELSE @,
                               !.completedAt = IF complete THEN "set" ELSE @]]
                      /\ intervalActive' =
                            [intervalActive EXCEPT ![jobId] = ~complete /\ ~hasError]
    /\ UNCHANGED <<activeJobs, config, timeoutPending, lastCall>>
    /\ UNCHANGED <<clientVars, dbVars, authVars>>

\* one tick of the setInterval callback of simulateSyncProgress
BatchTick(jobId) ==
    /\ jobId \in DOMAIN job
    /\ intervalActive[jobId]
    /\ IF IntervalStops(jobId)
          THEN /\ intervalActive' = [intervalActive EXCEPT ![jobId] = FALSE]
               /\ UNCHANGED <<job, processed>>
          ELSE \E hasError \in BOOLEAN :
               /\ hasError => RecordErrorCount(job[jobId].errors) < MaxRecordErrors
               /\ LET old == job[jobId]
                      toProcess == ToProcess(old.totalRecords, processed[jobId])
                      done == processed[jobId] + toProcess
                      counts == BatchCounts(config[jobId].syncMode, toProcess)
                      complete == IsComplete(done, old.totalRecords)
                  IN  /\ processed' = [processed EXCEPT ![jobId] = done]
                      /\ job' = [job EXCEPT ![jobId] =
                            [old EXCEPT
                               !.processedRecords = done,
                               !.insertedRecords = @ + counts.inserted,
                               !.updatedRecords = @ + counts.updated,
                               !.skippedRecords = @ + counts.skipped,
                               !.errors = IF hasError THEN Append(@, RecordError) ELSE @,
                               !.status = IF complete THEN "completed" ELSE @,
                               !.completedAt = IF complete THEN "set" ELSE @]]
                      /\ intervalActive' =
                            [intervalActive EXCEPT ![jobId] = ~complete]
    /\ UNCHANGED <<activeJobs, config, timeoutPending, lastCall>>
    /\ UNCHANGED <<clientVars, dbVars, authVars>>

\* a clear that only deletes completed jobs
ClearableCompletedOnly(status) == status = "completed"

\* the statuses clearCompletedJobs deletes from the registry
Clearable(status) == status = "completed" \/ status = "failed"

\* clearCompletedJobs()
clearCompletedJobs ==
    /\ activeJobs' = {jobId \in activeJobs : ~Clearable(job[jobId].status)}
    /\ lastCall' = [op |-> "clear", id |-> 0, ok |-> TRUE, value |-> <<>>, seen |-> <<>>]
    /\ UNCHANGED <<job, config, processed, timeoutPending, intervalActive>>
    /\ UNCHANGED <<clientVars, dbVars, authVars>>

Next ==
    \/ \E mode \in SyncModes : startSyncJob(WizardConfig(mode))
    \/ \E jobId \in JobIds : getSyncProgress(jobId)
    \/ \E jobId \in JobIds : cancelSyncJob(jobId)
    \/ \E jobId \in JobIds : RunningTimeout(jobId)
    \/ \E jobId \in JobIds : BatchTick(jobId)
    \/ clearCompletedJobs

\* ===================================================== sync client (browser)
\* The SyncExecution component: its React state, its two intervals, the
\* requests it has outstanding and the backend that answers them.  A state
\* update and the effects it triggers form one step (React commits the update
\* and re-runs the effects whose dependencies changed before the next event).
\* Timer ticks and replies interleave freely: no request has a time limit.
\* ---------------------------------------------------------------- bounds
MaxAttempts == 2      \* start requests sent in one run
MaxRequests == 2      \* requests outstanding at one time
MaxHint == 1          \* largest N of a "Retry after N seconds" message
MaxProgress == 1      \* processedRecords a job reports ranges over 0..MaxProgress
MaxClockMs == 1000    \* the clock runs at least this far (further while a cooldown is pending)
ClockStepMs == 500    \* granularity of the clock

\* ------------------------------------------------------- program constants
MsPerSecond == 1000

\* ---------------------------------------------------------- error messages
\* A message is the sequence of its words.
ToLowerCase(word) ==
    CASE word \in {"Retry", "RETRY"} -> "retry"
      [] word \in {"After", "AFTER"} -> "after"
      [] word \in {"Seconds", "SECONDS"} -> "seconds"
      [] word \in {"KEY", "Key"} -> "key"
      [] word \in {"ID", "Id"} -> "id"
      [] word \in {"Record_ID", "RECORD_ID"} -> "record_id"
      [] word \in {"Household_Size", "HOUSEHOLD_SIZE"} -> "household_size"
      [] word \in {"Created_At", "CREATED_AT"} -> "created_at"
      [] word \in {"Age", "AGE"} -> "age"
      [] OTHER -> word

IsDigits(word) == \E n \in 0..MaxHint : ToString(n) = word
NumberOf(word) == CHOOSE n \in 0..MaxHint : ToString(n) = word

\* /retry after\s+(\d+)\s+seconds/i matches at word i
MatchesAt(msg, i) ==
    /\ i + 3 <= Len(msg)
    /\ ToLowerCase(msg[i]) = "retry"
    /\ ToLowerCase(msg[i + 1]) = "after"
    /\ IsDigits(msg[i + 2])
    /\ ToLowerCase(msg[i + 3]) = "seconds"

\* parseRetryAfterSeconds(msg): <<>> is null
parseRetryAfterSeconds(msg) ==
    IF msg = <<>> THEN <<>>
    ELSE IF \E i \in 1..Len(msg) : MatchesAt(msg, i)
         THEN LET i == CHOOSE k \in 1..Len(msg) :
                           /\ MatchesAt(msg, k)
                           /\ \A m \in 1..(k - 1) : ~MatchesAt(msg, m)
              IN  <<NumberOf(msg[i + 2])>>
         ELSE <<>>

RateLimitMessage(n, upper) ==
    IF upper THEN <<"RETRY", "AFTER", ToString(n), "SECONDS">>
             ELSE <<"Retry", "after", ToString(n), "seconds">>
FatalMessage == <<"Connection", "refused">>
RecordMessage == <<"Value", "exceeds", "maximum", "allowed", "length">>
JobFailureMessages ==
    {RateLimitMessage(n, n % 2 = 0) : n \in 1..MaxHint} \cup {FatalMessage}
TransportMessages == {<<>>, <<"Failed", "to", "fetch">>}

JobError(msg) == [recordId |-> "", message |-> msg]
RowError == [recordId |-> "REC", message |-> RecordMessage]

\* ------------------------------------------------------------------ backend
Snapshot(jobId, status, errors) ==
    [jobId |-> jobId, status |-> status, processedRecords |-> 0, errors |-> errors]

StartRequest(a) ==
    [kind |-> "start", jobId |-> 0, attempt |-> a, phase |-> "sent",
     reply |-> <<>>, thrown |-> <<>>]
PollRequest(jobId, a) ==
    [kind |-> "poll", jobId |-> jobId, attempt |-> a, phase |-> "sent",
     reply |-> <<>>, thrown |-> <<>>]

Remove(seq, i) == [k \in 1..(Len(seq) - 1) |-> IF k < i THEN seq[k] ELSE seq[k + 1]]

Sent(i, kind) ==
    /\ i \in DOMAIN requests
    /\ requests[i].kind = kind
    /\ requests[i].phase = "sent"
Answered(i, kind) ==
    /\ i \in DOMAIN requests
    /\ requests[i].kind = kind
    /\ requests[i].phase = "answered"

ClientUnchanged ==
    UNCHANGED <<syncStatus, clientProgress, retryUntilMs, nowTick, pollRef, pollTimers, now,
                attempt, startedJob, cooldownEnd>>

\* POST /api/sync-jobs answered with a new job
BackendStart(i) ==
    /\ Sent(i, "start")
    /\ \E first \in {Snapshot(Len(backend) + 1, "pending", <<>>)} \cup
                    {Snapshot(Len(backend) + 1, "failed", <<JobError(msg)>>) :
                         msg \in JobFailureMessages} :
          /\ backend' = Append(backend, first)
          /\ requests' = [requests EXCEPT ![i].phase = "answered", ![i].reply = <<first>>]
    /\ lastEvent' = "backend"
    /\ ClientUnchanged
    /\ UNCHANGED <<vars, dbVars, authVars>>

\* POST /api/sync-jobs fails: apiRequest throws
BackendRefuse(i) ==
    /\ Sent(i, "start")
    /\ \E msg \in TransportMessages :
          requests' = [requests EXCEPT ![i].phase = "answered", ![i].thrown = <<msg>>]
    /\ lastEvent' = "backend"
    /\ UNCHANGED backend
    /\ ClientUnchanged
    /\ UNCHANGED <<vars, dbVars, authVars>>

\* GET /api/sync-jobs/{id}: the job's snapshot; a failed request yields null
BackendPoll(i) ==
    /\ Sent(i, "poll")
    /\ \E lost \in BOOLEAN :
          LET id == requests[i].jobId
              found == ~lost /\ id \in DOMAIN backend
          IN  requests' = [requests EXCEPT
                             ![i].phase = "answered",
                             ![i].reply = IF found THEN <<backend[id]>> ELSE <<>>]
    /\ lastEvent' = "backend"
    /\ UNCHANGED backend
    /\ ClientUnchanged
    /\ UNCHANGED <<vars, dbVars, authVars>>

\* the worker advances job k
BackendStep(k) ==
    /\ k \in DOMAIN backend
    /\ LET old == backend[k]
       IN  \/ /\ old.status = "pending"
              /\ backend' = [backend EXCEPT ![k].status = "running"]
           \/ /\ old.status = "running"
              /\ old.processedRecords < MaxProgress
              /\ \E hasError \in BOOLEAN :
                    backend' = [backend EXCEPT
                                  ![k].processedRecords = @ + 1,
                                  ![k].errors = IF hasError THEN Append(@, RowError) ELSE @]
           \/ /\ old.status = "running"
              /\ old.processedRecords = MaxProgress
              /\ backend' = [backend EXCEPT ![k].status = "completed"]
           \/ /\ old.status = "running"
              /\ backend' = [backend EXCEPT ![k].status = "cancelled"]
           \/ /\ old.status = "running"
              /\ \E msg \in JobFailureMessages :
                    backend' = [backend EXCEPT ![k].status = "failed",
                                               ![k].errors = Append(@, JobError(msg))]
    /\ lastEvent' = "backend"
    /\ UNCHANGED requests
    /\ ClientUnchanged
    /\ UNCHANGED <<vars, dbVars, authVars>>

\* ------------------------------------------------------------------- client
\* a countdown that rounds down
CeilRoundsDown(a, b) == a \div b

Ceil(a, b) == IF a % b = 0 THEN a \div b ELSE (a \div b) + 1

\* useMemo retryRemainingSeconds
retryRemainingSeconds ==
    IF retryUntilMs = 0 THEN 0
    ELSE LET remaining == Ceil(retryUntilMs - nowTick, MsPerSecond)
         IN  IF remaining > 0 THEN remaining ELSE 0

canRetryNow == retryRemainingSeconds = 0

\* progress?.jobId as an effect dependency: <<>> is undefined
JobIdOf(p) == IF p = <<>> THEN <<>> ELSE <<p[1].jobId>>

\* The polling effect, deps [status, progress?.jobId]: when a dependency
\* changed it clears the poller and sets a new one if status is syncing and
\* progress?.jobId is not null; otherwise the poller is left as the handler
\* left it.
PollEffect(oldStatus, oldProgress, newStatus, newProgress, ref) ==
    IF oldStatus # newStatus \/ JobIdOf(oldProgress) # JobIdOf(newProgress)
       THEN IF newStatus = "syncing" /\ newProgress # <<>>
               THEN <<newProgress[1].jobId>>
               ELSE <<>>
       ELSE ref

\* the interval pollRef.current refers to
RefTimers(ref) == IF ref = <<>> THEN {} ELSE {ref[1]}

\* a polling effect whose cleanup leaves the old interval running
PollTimersNoCleanup(oldStatus, oldProgress, newStatus, newProgress, ref, timers) ==
    IF oldStatus # newStatus \/ JobIdOf(oldProgress) # JobIdOf(newProgress)
       THEN timers \cup RefTimers(PollEffect(oldStatus, oldProgress,
                                             newStatus, newProgress, ref))
       ELSE timers

\* The intervals alive after the polling effect: when a dependency changed,
\* the cleanup and the effect's first lines clear the interval pollRef.current
\* refers to, then the effect may set a new one.
PollTimers(oldStatus, oldProgress, newStatus, newProgress, ref, timers) ==
    IF oldStatus # newStatus \/ JobIdOf(oldProgress) # JobIdOf(newProgress)
       THEN (timers \ RefTimers(ref))
               \cup RefTimers(PollEffect(oldStatus, oldProgress,
                                         newStatus, newProgress, ref))
       ELSE timers

\* errors?.[0]?.message ?? ""
FirstMessage(p) == IF p.errors = <<>> THEN <<>> ELSE p.errors[1].message

\* the cooldown a failed snapshot sets: <<>> none, <<secs>> otherwise
CooldownOf(p) ==
    LET secs == parseRetryAfterSeconds(FirstMessage(p))
    IN  IF secs # <<>> /\ secs[1] > 0 THEN secs ELSE <<>>

\* a catch block that reports the failure without an error entry
StartFailureProgressNoError(msg) ==
    [jobId |-> 0, status |-> "failed", processedRecords |-> 0, errors |-> <<>>]

\* the progress the catch block of handleStartSync synthesizes
StartFailureProgress(msg) ==
    [jobId |-> 0, status |-> "failed", processedRecords |-> 0,
     errors |-> <<[recordId |-> "n/a",
                   message |-> IF msg = <<>> THEN <<"Start", "sync", "failed">> ELSE msg]>>]

\* "Start Sync" is rendered while ready, "Try Again" while failed
StartButtonShown ==
    syncStatus = "ready" \/ (syncStatus = "failed" /\ clientProgress # <<>>)

\* handleStartSync up to its await
handleStartSync ==
    /\ StartButtonShown
    /\ lastEvent' = "handleStartSync"
    /\ IF retryRemainingSeconds > 0
          THEN UNCHANGED <<syncStatus, clientProgress, retryUntilMs, nowTick, pollRef, pollTimers,
                           requests, backend, now, attempt, startedJob, cooldownEnd>>
          ELSE /\ attempt < MaxAttempts
               /\ Len(requests) < MaxRequests
               /\ retryUntilMs' = 0
               /\ nowTick' = now
               /\ syncStatus' = "syncing"
               /\ attempt' = attempt + 1
               /\ startedJob' = Append(startedJob, <<>>)
               /\ requests' = Append(requests, StartRequest(attempt + 1))
               /\ pollRef' = PollEffect(syncStatus, clientProgress,
                                        "syncing", clientProgress, pollRef)
               /\ pollTimers' = PollTimers(syncStatus, clientProgress,
                                           "syncing", clientProgress, pollRef, pollTimers)
               /\ UNCHANGED <<clientProgress, backend, now, cooldownEnd>>
    /\ UNCHANGED <<vars, dbVars, authVars>>

\* what a snapshot does to the client: shared by the start and the poll path
ApplySnapshot(p, clearsPoller) ==
    LET newStatus == IF p.status = "completed" THEN "complete"
                     ELSE IF p.status = "failed" THEN "failed"
                     ELSE syncStatus
        cooldown == IF p.status = "failed" THEN CooldownOf(p) ELSE <<>>
        cleared == clearsPoller /\ p.status \in {"completed", "failed"}
        ref == IF cleared THEN <<>> ELSE pollRef
        timers == IF cleared THEN pollTimers \ RefTimers(pollRef) ELSE pollTimers
    IN  /\ clientProgress' = <<p>>
        /\ syncStatus' = newStatus
        /\ retryUntilMs' = IF cooldown # <<>> THEN now + cooldown[1] * MsPerSecond
                           ELSE retryUntilMs
        /\ nowTick' = IF cooldown # <<>> THEN now ELSE nowTick
        /\ cooldownEnd' = IF cooldown # <<>> THEN now + cooldown[1] * MsPerSecond
                          ELSE cooldownEnd
        /\ pollRef' = PollEffect(syncStatus, clientProgress, newStatus, <<p>>, ref)
        /\ pollTimers' = PollTimers(syncStatus, clientProgress, newStatus, <<p>>, ref, timers)

\* handleStartSync after its await: startSyncJob returned
StartReply(i) ==
    /\ Answered(i, "start")
    /\ requests[i].thrown = <<>>
    /\ LET p == requests[i].reply[1]
       IN  /\ ApplySnapshot(p, FALSE)
           /\ startedJob' = [startedJob EXCEPT ![requests[i].attempt] = <<p.jobId>>]
    /\ requests' = Remove(requests, i)
    /\ lastEvent' = "StartReply"
    /\ UNCHANGED <<backend, now, attempt>>
    /\ UNCHANGED <<vars, dbVars, authVars>>

\* handleStartSync after its await: startSyncJob threw
StartError(i) ==
    /\ Answered(i, "start")
    /\ requests[i].thrown # <<>>
    /\ LET p == StartFailureProgress(requests[i].thrown[1])
       IN  /\ clientProgress' = <<p>>
           /\ syncStatus' = "failed"
           /\ pollRef' = PollEffect(syncStatus, clientProgress, "failed", <<p>>, pollRef)
           /\ pollTimers' = PollTimers(syncStatus, clientProgress, "failed", <<p>>,
                                       pollRef, pollTimers)
    /\ requests' = Remove(requests, i)
    /\ lastEvent' = "StartError"
    /\ UNCHANGED <<retryUntilMs, nowTick, backend, now, attempt, startedJob, cooldownEnd>>
    /\ UNCHANGED <<vars, dbVars, authVars>>

\* the poll interval fires: getSyncProgress(String(progress.jobId)) is sent
PollTick ==
    /\ Len(requests) < MaxRequests
    /\ \E id \in pollTimers : requests' = Append(requests, PollRequest(id, attempt))
    /\ lastEvent' = "PollTick"
    /\ UNCHANGED <<syncStatus, clientProgress, retryUntilMs, nowTick, pollRef, pollTimers,
                   backend, now, attempt, startedJob, cooldownEnd>>
    /\ UNCHANGED <<vars, dbVars, authVars>>

\* the poll callback after its await
PollReply(i) ==
    /\ Answered(i, "poll")
    /\ IF requests[i].reply = <<>>
          THEN UNCHANGED <<syncStatus, clientProgress, retryUntilMs, nowTick,
                           pollRef, pollTimers, cooldownEnd>>
          ELSE ApplySnapshot(requests[i].reply[1], TRUE)
    /\ requests' = Remove(requests, i)
    /\ lastEvent' = "PollReply"
    /\ UNCHANGED <<backend, now, attempt, startedJob>>
    /\ UNCHANGED <<vars, dbVars, authVars>>

\* a one-second interval that only runs during a sync
NowTickIntervalWhileSyncing ==
    /\ retryUntilMs # 0
    /\ syncStatus = "syncing"
    /\ nowTick' = now
    /\ lastEvent' = "NowTickInterval"
    /\ UNCHANGED <<syncStatus, clientProgress, retryUntilMs, pollRef, pollTimers, requests,
                   backend, now, attempt, startedJob, cooldownEnd>>
    /\ UNCHANGED <<vars, dbVars, authVars>>

\* the one-second interval that exists while retryUntilMs is set
NowTickInterval ==
    /\ retryUntilMs # 0
    /\ nowTick' = now
    /\ lastEvent' = "NowTickInterval"
    /\ UNCHANGED <<syncStatus, clientProgress, retryUntilMs, pollRef, pollTimers, requests,
                   backend, now, attempt, startedJob, cooldownEnd>>
    /\ UNCHANGED <<vars, dbVars, authVars>>

\* time passes
ClockTick ==
    /\ now < MaxClockMs \/ now < retryUntilMs
    /\ now' = now + ClockStepMs
    /\ lastEvent' = "ClockTick"
    /\ UNCHANGED <<syncStatus, clientProgress, retryUntilMs, nowTick, pollRef, pollTimers,
                   requests, backend, attempt, startedJob, cooldownEnd>>
    /\ UNCHANGED <<vars, dbVars, authVars>>

\* "New Sync" is rendered while complete and while failed
RestartButtonShown ==
    syncStatus = "complete" \/ (syncStatus = "failed" /\ clientProgress # <<>>)

\* handleRestart, then the wizard mounts a new SyncExecution: the old
\* instance's state is gone and replies to it change nothing.
handleRestart ==
    /\ RestartButtonShown
    /\ syncStatus' = "ready"
    /\ clientProgress' = <<>>
    /\ retryUntilMs' = 0
    /\ nowTick' = now
    /\ pollRef' = <<>>
    /\ pollTimers' = pollTimers \ RefTimers(pollRef)
    /\ requests' = <<>>
    /\ lastEvent' = "handleRestart"
    /\ UNCHANGED <<backend, now, attempt, startedJob, cooldownEnd>>
    /\ UNCHANGED <<vars, dbVars, authVars>>

\* The user steps back in the wizard: SyncExecution is unmounted, whatever
\* its status, and the cleanup of the polling effect runs; the step is
\* mounted again later with fresh state.
Teardown ==
    /\ syncStatus' = "ready"
    /\ clientProgress' = <<>>
    /\ retryUntilMs' = 0
    /\ nowTick' = now
    /\ pollRef' = <<>>
    /\ pollTimers' = pollTimers \ RefTimers(pollRef)
    /\ requests' = <<>>
    /\ lastEvent' = "Teardown"
    /\ UNCHANGED <<backend, now, attempt, startedJob, cooldownEnd>>
    /\ UNCHANGED <<vars, dbVars, authVars>>

ClientNext ==
    \/ handleStartSync
    \/ \E i \in 1..MaxRequests : StartReply(i)
    \/ \E i \in 1..MaxRequests : StartError(i)
    \/ PollTick
    \/ \E i \in 1..MaxRequests : PollReply(i)
    \/ NowTickInterval
    \/ ClockTick
    \/ handleRestart
    \/ Teardown
    \/ \E i \in 1..MaxRequests : BackendStart(i)
    \/ \E i \in 1..MaxRequests : BackendRefuse(i)
    \/ \E i \in 1..MaxRequests : BackendPoll(i)
    \/ \E k \in 1..MaxAttempts : BackendStep(k)

Spec == Init /\ [][Next]_allVars

ClientSpec == Init /\ [][ClientNext]_allVars

\* The browser's clock advances and a pending interval callback is run: the
\* clock and the one-second interval cannot stay enabled forever without firing.
FairClientSpec ==
    /\ ClientSpec
    /\ WF_allVars(ClockTick)
    /\ WF_allVars(NowTickInterval)

\* ------------------------------------------------------------------ claims
Created == DOMAIN job
NotRunning(jobId) == jobId \notin activeJobs \/ job[jobId].status # "running"
JobLevelErrors(errs) == {i \in 1..Len(errs) : errs[i].recordId = ""}
Counters(p) ==
    <<p.processedRecords, p.insertedRecords, p.updatedRecords, p.skippedRecords>>

\* a step in which a cancelSyncJob(jobId) call returns
IsCancelCall(jobId) ==
    \/ cancelSyncJob(jobId)
    \/ lastCall' # lastCall /\ lastCall'.op = "cancel" /\ lastCall'.id = jobId

\* a step in which a getSyncProgress(jobId) call returns
IsGetCall(jobId) ==
    \/ getSyncProgress(jobId)
    \/ lastCall' # lastCall /\ lastCall'.op = "get" /\ lastCall'.id = jobId

\* a step in which a startSyncJob call returns
IsStartCall ==
    \/ \E cfg \in Configs : startSyncJob(cfg)
    \/ lastCall' # lastCall /\ lastCall'.op = "start"

\* a step in which a clearCompletedJobs call returns
IsClearCall ==
    \/ clearCompletedJobs
    \/ lastCall' # lastCall /\ lastCall'.op = "clear"

\* C1: in every state between two callbacks, every job has
\* insertedRecords + updatedRecords + skippedRecords = processedRecords.
C1_CountersAddUp ==
    \A j \in Created :
        job[j].insertedRecords + job[j].updatedRecords + job[j].skippedRecords
            = job[j].processedRecords

\* a reader polls an upsert job in mid-transfer, after a truncated or full batch
C1_Witness ==
    \E j \in Created :
        /\ config[j].syncMode = "upsert"
        /\ job[j].status = "running"
        /\ job[j].updatedRecords > 0
        /\ job[j].skippedRecords > 0
        /\ lastCall.op = "get" /\ lastCall.id = j /\ lastCall.ok
        /\ lastCall.seen[1].processedRecords = job[j].processedRecords

\* C2: a job's status only moves pending -> running and running -> completed,
\* failed or cancelled; a terminal status never changes again.
C2_StatusMonotone ==
    [][\A j \in Created :
          job'[j].status # job[j].status =>
             \/ job[j].status = "pending" /\ job'[j].status = "running"
             \/ job[j].status = "running" /\ job'[j].status \in TerminalStatuses]_vars

\* a completed job whose timers are both gone and on which a cancel was tried
C2_Witness ==
    \E j \in activeJobs :
        /\ job[j].status = "completed"
        /\ ~timeoutPending[j] /\ ~intervalActive[j]
        /\ lastCall.op = "cancel" /\ lastCall.id = j

C4_CancelNoOp ==
    [][\A id \in JobIds :
          (IsCancelCall(id) /\ NotRunning(id)) =>
             /\ ~lastCall'.ok
             /\ UNCHANGED <<activeJobs, job, config, processed,
                            timeoutPending, intervalActive>>]_vars

\* a cancel was refused for a job that is still pending
C4_Witness ==
    /\ lastCall.op = "cancel" /\ ~lastCall.ok
    /\ lastCall.id \in activeJobs
    /\ job[lastCall.id].status = "pending"

\* C5: once cancel has succeeded for a job (its errors hold the job-level
\* cancellation error), its counters and its errors never change again.
C5_NoBatchAfterCancel ==
    [][\A j \in Created :
          JobLevelErrors(job[j].errors) # {} =>
             /\ Counters(job'[j]) = Counters(job[j])
             /\ job'[j].errors = job[j].errors]_vars

\* a job cancelled in mid-transfer whose batch timer has ticked since and stopped
C5_Witness ==
    \E j \in Created :
        /\ JobLevelErrors(job[j].errors) # {}
        /\ lastCall = [op |-> "cancel", id |-> j, ok |-> TRUE,
                       value |-> <<>>, seen |-> <<>>]
        /\ job[j].processedRecords > 0
        /\ job[j].processedRecords < job[j].totalRecords
        /\ ~intervalActive[j]

\* C6: once totalRecords is set, processedRecords <= totalRecords; the last
\* batch is truncated, so a completed job has processed exactly the total.
C6_ProcessedWithinTotal ==
    \A j \in Created :
        /\ job[j].status # "pending" => job[j].processedRecords <= job[j].totalRecords
        /\ job[j].status = "completed" => job[j].processedRecords = job[j].totalRecords

\* a job whose total is not a multiple of the batch size has completed
C6_Witness ==
    \E j \in Created :
        /\ job[j].status = "completed"
        /\ job[j].totalRecords % batchSize # 0
        /\ job[j].processedRecords = job[j].totalRecords

C8_SnapshotIsCopy ==
    lastCall.value # <<>> => Deref(lastCall.value) = lastCall.seen

\* C9: getProgress changes no job, registry entry or timer; it returns the
\* registered job as it is, so two calls with no step between them return
\* equal snapshots; an unknown or cleared id yields "not found" as a value.
C9_GetProgressReadOnly ==
    [][\A id \in JobIds :
          IsGetCall(id) =>
             /\ UNCHANGED <<activeJobs, job, config, processed,
                            timeoutPending, intervalActive>>
             /\ id \in activeJobs =>
                   lastCall'.ok /\ lastCall'.seen = <<job[id]>>
             /\ id \notin activeJobs =>
                   ~lastCall'.ok /\ lastCall'.value = <<>> /\ lastCall'.seen = <<>>
             /\ (lastCall.op = "get" /\ lastCall.id = id
                    /\ Deref(lastCall.value) = lastCall.seen) =>
                   lastCall'.seen = lastCall.seen]_vars

\* getProgress answered "not found" for the id of a job that was cleared
C9_Witness ==
    /\ lastCall.op = "get" /\ ~lastCall.ok /\ lastCall.value = <<>>
    /\ lastCall.id \in Created \ activeJobs

\* C10: clearTerminalJobs leaves in the registry exactly the jobs that were
\* pending or running, unchanged, none of them terminal, and leaves their
\* timers alone, so a running job goes on processing batches.
C10_ClearKeepsLiveJobs ==
    [][IsClearCall =>
          /\ activeJobs' = {j \in activeJobs : job[j].status \in {"pending", "running"}}
          /\ \A j \in activeJobs' : job'[j].status \notin TerminalStatuses
          /\ UNCHANGED <<job, config, processed, timeoutPending, intervalActive>>]_vars

\* a clear removed a terminal job, and a job it kept has completed since
C10_Witness ==
    /\ lastCall.op = "clear"
    /\ Created \ activeJobs # {}
    /\ \E j \in activeJobs : job[j].status = "completed" /\ job[j].processedRecords > 0

\* ----------------------------------------------------- claims of the client
PollRequests == {i \in DOMAIN requests : requests[i].kind = "poll"}

\* C11: every getProgress request the client has outstanding names the job id
\* that the start of the attempt it was sent in returned; on a retry the id
\* of the previous failed job and the placeholder id 0 are never polled.
C11_PollsCurrentJob ==
    \A i \in PollRequests :
        startedJob[requests[i].attempt] = <<requests[i].jobId>>

\* the reply to request i is a snapshot of the job the poller polls, with a status in S
PolledJobReply(i, S) ==
    /\ i \in PollRequests
    /\ requests[i].reply # <<>>
    /\ pollRef = <<requests[i].jobId>>
    /\ requests[i].reply[1].status \in S

\* C12: when the client, while syncing, receives a snapshot of the job it
\* polls whose status is terminal (completed, failed or cancelled), it leaves
\* syncing and its poll interval is cleared.
C12_TerminalStopsPolling ==
    [][\A i \in DOMAIN requests :
          (syncStatus = "syncing" /\ PolledJobReply(i, TerminalStatuses) /\ PollReply(i))
              => (syncStatus' # "syncing" /\ pollRef' = <<>>)]_allVars

\* C13: the client never has more than one getProgress request outstanding:
\* a poll still in flight when the next interval tick comes makes the tick
\* send nothing.
C13_OnePollOutstanding == Cardinality(PollRequests) <= 1

\* the client holds a failed progress with exactly one error
HoldsSynthesizedFailure(p) ==
    /\ p # <<>>
    /\ p[1].status = "failed"
    /\ Len(p[1].errors) = 1

\* C14: when a getProgress request fails at the transport level (the call
\* yields no snapshot), the client ends in failed holding a progress with
\* status failed and one synthesized error; the failure is never ignored.
C14_PollFailureFails ==
    [][\A i \in PollRequests :
          (requests[i].reply = <<>> /\ PollReply(i))
              => (syncStatus' = "failed" /\ HoldsSynthesizedFailure(clientProgress'))]_allVars

\* C15: when the start request fails at the transport level, the start
\* handler catches the error and leaves the client in failed, holding a
\* progress with status failed and exactly one synthesized error.
C15_StartFailureFails ==
    [][lastEvent' = "StartError"
          => /\ syncStatus' = "failed"
             /\ HoldsSynthesizedFailure(clientProgress')
             /\ clientProgress'[1].errors[1].recordId = "n/a"
             /\ Len(requests') = Len(requests) - 1]_allVars

C15_Witness ==
    /\ lastEvent = "StartError"
    /\ syncStatus = "failed"
    /\ HoldsSynthesizedFailure(clientProgress)
    /\ clientProgress[1].jobId = 0

\* the progress the client holds is a failed job whose error message carries
\* a retry hint of N > 0 seconds
HoldsRateLimitedFailure ==
    /\ clientProgress # <<>>
    /\ clientProgress[1].status = "failed"
    /\ CooldownOf(clientProgress[1]) # <<>>

\* C16: while the client holds a failed job that it observed at time t with
\* the message "retry after N seconds", N > 0, a retry attempted before
\* t + N * 1000 ms is rejected: no request is sent and the client stays failed.
C16_EarlyRetryRejected ==
    [][(/\ lastEvent' = "handleStartSync"
        /\ syncStatus = "failed"
        /\ HoldsRateLimitedFailure
        /\ now < cooldownEnd)
          => (requests' = requests /\ syncStatus' = "failed" /\ attempt' = attempt)]_allVars

C16_Witness ==
    /\ lastEvent = "handleStartSync"
    /\ syncStatus = "failed"
    /\ HoldsRateLimitedFailure
    /\ retryUntilMs # 0
    /\ nowTick < now
    /\ now < cooldownEnd

\* C17: a cooldown always ends.  Whenever a cooldown is set, the remaining
\* seconds eventually reach 0 (retry is enabled), and a retry attempted while
\* they are 0 sends a start request and moves the client to syncing.
C17_CooldownEnds ==
    /\ (retryUntilMs # 0) ~> canRetryNow
    /\ [][(lastEvent' = "handleStartSync" /\ syncStatus = "failed" /\ canRetryNow)
             => /\ syncStatus' = "syncing"
                /\ requests' = Append(requests, StartRequest(attempt'))
                /\ attempt' = attempt + 1]_allVars

C17_Witness ==
    /\ lastEvent = "handleStartSync"
    /\ syncStatus = "syncing"
    /\ cooldownEnd # 0
    /\ now >= cooldownEnd
    /\ HoldsRateLimitedFailure

\* positions of the job-level errors of snapshot p that carry a retry hint N > 0
RateLimitErrors(p) ==
    {k \in DOMAIN p.errors :
        /\ p.errors[k].recordId = ""
        /\ parseRetryAfterSeconds(p.errors[k].message) # <<>>
        /\ parseRetryAfterSeconds(p.errors[k].message)[1] > 0}

Last(S) == CHOOSE k \in S : \A m \in S : m <= k

\* C18: when the client receives a failed snapshot whose errors contain a
\* job-level error "retry after N seconds" with N > 0, first in the list or
\* not, it sets a cooldown of N seconds taken from the most recent such error.
C18_CooldownFromAnyPosition ==
    [][\A i \in DOMAIN requests :
          (/\ requests[i].reply # <<>>
           /\ requests[i].reply[1].status = "failed"
           /\ RateLimitErrors(requests[i].reply[1]) # {}
           /\ (PollReply(i) \/ StartReply(i)))
              => LET p == requests[i].reply[1]
                     hint == parseRetryAfterSeconds(p.errors[Last(RateLimitErrors(p))].message)
                 IN  retryUntilMs' = now + hint[1] * MsPerSecond]_allVars

\* C19: after a rate-limited failure observed at time t with a hint of N
\* seconds, no start request is sent before t + N * 1000 ms, whichever way
\* the start is triggered ("Try Again", or "New Sync" and a fresh start).
C19_NoStartDuringCooldown ==
    [][attempt' # attempt => now >= cooldownEnd]_allVars

ClientStatuses == {"ready", "syncing", "complete", "failed"}

\* the step applied a snapshot with the given job status
AppliedSnapshot(jobStatus) ==
    /\ lastEvent' \in {"PollReply", "StartReply"}
    /\ clientProgress' # <<>>
    /\ clientProgress'[1].status = jobStatus

\* C20: the status of a mounted client is one of ready, syncing, complete,
\* failed and only moves ready -> syncing on a start, syncing -> complete on
\* a completed snapshot, syncing -> failed on a failed snapshot or a failed
\* start, and failed -> syncing on a permitted retry; complete is never left.
\* ("New Sync" and stepping back unmount the client; the next mount is a new
\* status stream.)
C20_StatusStream ==
    [][lastEvent' \notin {"handleRestart", "Teardown"} =>
          /\ syncStatus' \in ClientStatuses
          /\ syncStatus' # syncStatus =>
                \/ /\ syncStatus = "ready" /\ syncStatus' = "syncing"
                   /\ lastEvent' = "handleStartSync"
                \/ /\ syncStatus = "syncing" /\ syncStatus' = "complete"
                   /\ AppliedSnapshot("completed")
                \/ /\ syncStatus = "syncing" /\ syncStatus' = "failed"
                   /\ (AppliedSnapshot("failed") \/ lastEvent' = "StartError")
                \/ /\ syncStatus = "failed" /\ syncStatus' = "syncing"
                   /\ lastEvent' = "handleStartSync"
                   /\ canRetryNow]_allVars

\* C21: the client has at most one poll interval alive; none is alive while
\* its status is not syncing, nor after "New Sync" or a teardown, so no
\* getProgress request is started from such a state.
C21_NoOrphanedPoller ==
    /\ Cardinality(pollTimers) <= 1
    /\ pollTimers = RefTimers(pollRef)
    /\ syncStatus # "syncing" => pollTimers = {}
    /\ lastEvent \in {"handleRestart", "Teardown"} => pollTimers = {}

\* the client is torn down while it polls a job
C21_Witness ==
    /\ lastEvent = "Teardown"
    /\ pollTimers = {}
    /\ attempt > 0
    /\ startedJob[attempt] # <<>>
    /\ backend[startedJob[attempt][1]].status = "running"

\* ===================================================== target database (mock)
\* Array.prototype.find: the first element of seq among the positions `hits`
\* that satisfy the test, <<>> for undefined
Find(seq, hits) ==
    IF hits = {} THEN <<>>
    ELSE <<seq[CHOOSE i \in hits : \A k \in hits : i <= k]>>

\* mockSchemas.find(s => s.name === schemaName)?.tables.find(t => t.name === tableName)
FindTable(schemaName, tableName) ==
    LET schema == Find(schemas, {i \in 1..Len(schemas) : schemas[i].name = schemaName})
    IN  IF schema = <<>> THEN <<>>
        ELSE LET tables == schema[1].tables
             IN  Find(tables, {i \in 1..Len(tables) : tables[i].name = tableName})

\* createTable(schemaName, tableName, formFields) on a connected database:
\* it fails when the table already exists and reports the qualified name
createTable(schemaName, tableName) ==
    IF FindTable(schemaName, tableName) # <<>>
       THEN [success |-> FALSE,
             error |-> <<"Table", <<schemaName, tableName>>, "already", "exists">>]
       ELSE [success |-> TRUE, error |-> <<>>]

\* ============================================= starts with any configuration
\* The sync service called with every configuration of Configs, and its timers.
ConfigNext ==
    \/ \E cfg \in Configs : startSyncJob(cfg)
    \/ \E jobId \in JobIds : RunningTimeout(jobId)
    \/ \E jobId \in JobIds : BatchTick(jobId)

ConfigSpec == Init /\ [][ConfigNext]_allVars

\* the configurations the interface of start accepts
RequiredFieldsPresent(cfg) == cfg.formId # "" /\ cfg.targetSchema # "" /\ cfg.targetTable # ""
ValidConfig(cfg) == RequiredFieldsPresent(cfg) /\ cfg.syncMode \in SyncModes

\* C22: a start whose configuration lacks formId, targetSchema or targetTable,
\* or whose syncMode is not insert, upsert or replace, creates no state: the
\* registry and the heap are as before the call and no timer is started.
C22_InvalidConfigRejected ==
    [][\A cfg \in Configs :
          (~ValidConfig(cfg) /\ startSyncJob(cfg)) =>
             UNCHANGED <<activeJobs, job, timeoutPending, intervalActive>>]_allVars

\* the creation of the target table of a configuration fails
CreationFails(cfg) ==
    cfg.createNewTable /\ ~createTable(cfg.targetSchema, cfg.targetTable).success

\* the job holds a job-level error that names the table that could not be created
NamesConflict(jobId) ==
    \E i \in 1..Len(job[jobId].errors) :
       /\ job[jobId].errors[i].recordId = ""
       /\ job[jobId].errors[i].message =
             createTable(config[jobId].targetSchema, config[jobId].targetTable).error

\* C23: a job started with createNewTable whose table creation fails never
\* reaches running and processes no batch: once it has left pending it is
\* failed and holds a job-level error that names the conflicting table.
C23_CreateConflictFails ==
    \A jobId \in DOMAIN job :
       CreationFails(config[jobId]) =>
          /\ job[jobId].status \in {"pending", "failed"}
          /\ job[jobId].processedRecords = 0
          /\ job[jobId].status = "failed" => NamesConflict(jobId)

\* the step appends a record-level error to the job
RecordsError(jobId) ==
    /\ jobId \in DOMAIN job
    /\ RecordErrorCount(job'[jobId].errors) > RecordErrorCount(job[jobId].errors)

\* C24: a batch step that appends a record-level error leaves the job running,
\* with its batch timer alive, or completed when that batch was the last one;
\* a job becomes failed only in a successful cancel, which appends a job-level
\* error.
C24_RecordErrorKeepsJob ==
    [][\A jobId \in JobIds :
          /\ RecordsError(jobId) =>
                /\ job'[jobId].processedRecords > job[jobId].processedRecords
                /\ job'[jobId].status =
                      IF job'[jobId].processedRecords >= job'[jobId].totalRecords
                         THEN "completed" ELSE "running"
                /\ intervalActive'[jobId] = (job'[jobId].status = "running")
          /\ (jobId \in DOMAIN job /\ job[jobId].status # "failed"
                                   /\ job'[jobId].status = "failed") =>
                /\ lastCall' = [op |-> "cancel", id |-> jobId, ok |-> TRUE,
                                value |-> <<>>, seen |-> <<>>]
                /\ job'[jobId].errors = Append(job[jobId].errors, CancelError)]_allVars

\* a record-level error was recorded in the first batch of a job that runs on
C24_Witness ==
    \E jobId \in DOMAIN job :
       /\ RecordErrorCount(job[jobId].errors) > 0
       /\ job[jobId].status = "running"
       /\ job[jobId].processedRecords = batchSize
       /\ intervalActive[jobId]

\* sequence a is a prefix of sequence b
IsPrefix(a, b) == Len(a) <= Len(b) /\ \A i \in 1..Len(a) : a[i] = b[i]

\* C25: the errors list of a job is append-only: in every step, the clearing
\* of finished jobs included, the list the job object held before the step is
\* a prefix of the list it holds after it.
C25_ErrorsAppendOnly ==
    [][\A jobId \in DOMAIN job : IsPrefix(job[jobId].errors, job'[jobId].errors)]_allVars

\* a job recorded a record-level error and then the error of its cancellation
C25_Witness ==
    \E jobId \in DOMAIN job : job[jobId].errors = <<RecordError, CancelError>>

\* C26: a job has completedAt set exactly when its status is terminal: it is
\* unset while the job is pending or running and set once the job is
\* completed, failed or cancelled, a cancelled job included.
C26_CompletedAtIffTerminal ==
    \A jobId \in DOMAIN job :
       (job[jobId].completedAt = "set") <=> (job[jobId].status \in TerminalStatuses)

\* C28: an insert-only job never counts an update, and a finished insert-only
\* run over 100 source records, 40 of which exist at the target already, has
\* inserted 60 records and skipped 40.  (The service never reads the target,
\* so the counters of a run are the same whichever records exist there.)
C28_InsertOnlyCounts ==
    \A jobId \in DOMAIN job :
       config[jobId].syncMode = "insert" =>
          /\ job[jobId].updatedRecords = 0
          /\ (job[jobId].status = "completed" /\ job[jobId].totalRecords = 100) =>
                /\ job[jobId].insertedRecords = 60
                /\ job[jobId].skippedRecords = 40

\* ================================================ database client (Postgres)
\* The Postgres API module: the connection it holds and the schema validator.
\* ---------------------------------------------------------------- bounds
MaxFields == 2        \* form fields passed to one validation

Credentials(host, database, username, password) ==
    [host |-> host, database |-> database, username |-> username, password |-> password]

CredentialChoices ==
    {Credentials("db.example.org", "surveys", "sync", "secret"),
     Credentials("", "surveys", "sync", "secret"),
     Credentials("db.example.org", "nonexistent", "sync", "secret"),
     Credentials("db.example.org", "surveys", "sync", "wrongpassword")}

\* the checks of connectPostgres, in order: <<>> when the credentials pass
ConnectError(credentials) ==
    IF credentials.host = "" THEN <<"Host is required">>
    ELSE IF credentials.database = "" THEN <<"Database name is required">>
    ELSE IF credentials.username = "" THEN <<"Username is required">>
    ELSE IF credentials.password = "" THEN <<"Password is required">>
    ELSE IF credentials.host = "invalid.host" THEN <<"Could not resolve hostname">>
    ELSE IF credentials.database = "nonexistent" THEN <<"Database does not exist">>
    ELSE IF credentials.password = "wrongpassword" THEN <<"Password authentication failed">>
    ELSE <<>>

\* connectPostgres(credentials): a refused or timed-out attempt leaves the
\* stored connection as it was
connectPostgres(credentials) ==
    /\ \E timedOut \in BOOLEAN :
          LET error == IF ConnectError(credentials) # <<>> THEN ConnectError(credentials)
                       ELSE IF timedOut THEN <<"Connection timed out">> ELSE <<>>
          IN  /\ currentConnection' =
                    IF error = <<>> THEN <<credentials>> ELSE currentConnection
              /\ dbCall' = DbCall("connect", <<>>, "", "", FALSE,
                                  <<[success |-> error = <<>>, error |-> error]>>)
    /\ UNCHANGED schemas
    /\ UNCHANGED <<vars, clientVars, authVars>>

\* disconnect()
disconnect ==
    /\ currentConnection' = <<>>
    /\ dbCall' = DbCall("disconnect", <<>>, "", "", FALSE, <<>>)
    /\ UNCHANGED schemas
    /\ UNCHANGED <<vars, clientVars, authVars>>

\* a SurveyCTOField (its label plays no part)
SurveyCTOField(name, type, isPrimaryKey) ==
    [name |-> name, type |-> type, isPrimaryKey |-> isPrimaryKey]

FormFieldChoices ==
    {SurveyCTOField("KEY", "text", TRUE),
     SurveyCTOField("Record_ID", "text", TRUE),
     SurveyCTOField("household_id", "text", FALSE),
     SurveyCTOField("Household_Size", "integer", FALSE),
     SurveyCTOField("income", "decimal", FALSE),
     SurveyCTOField("age", "integer", FALSE)}

FormFieldLists == UNION {[1..n -> FormFieldChoices] : n \in 0..MaxFields}
SchemaNames == {"public", "surveys", "staging", "archive"}
TableNames ==
    {"household_data", "health_records", "raw_responses", "new_table",
     "people", "responses", "legacy", "notes"}

\* Array.prototype.includes
Includes(seq, x) == \E i \in 1..Len(seq) : seq[i] = x

\* seq.map(e => e.name.toLowerCase())
LowerNames(seq) == [i \in 1..Len(seq) |-> ToLowerCase(seq[i].name)]

\* seq.map(e => e.name)
Names(seq) == [i \in 1..Len(seq) |-> seq[i].name]

metadataColumns == <<"created_at", "updated_at", "id">>

\* a missing-column test that compares the names as they are written
MissingColumnsCaseSensitive(formFields, table) ==
    LET NotInTable(f) == ~Includes(Names(table.columns), f.name)
    IN  Names(SelectSeq(formFields, NotInTable))

\* form fields that are in the form but not in the table
MissingColumns(formFields, table) ==
    LET NotInTable(f) == ~Includes(LowerNames(table.columns), ToLowerCase(f.name))
    IN  Names(SelectSeq(formFields, NotInTable))

\* table columns that are not in the form, the metadata columns left out
ExtraColumns(formFields, table) ==
    LET NotInForm(c) ==
           /\ ~Includes(LowerNames(formFields), ToLowerCase(c.name))
           /\ ~Includes(metadataColumns, ToLowerCase(c.name))
    IN  Names(SelectSeq(table.columns, NotInForm))

\* a primary key test that accepts a table keyed by id whatever the form holds
PrimaryKeyMatchSurrogateAlways(formFields, table) ==
    LET formPK == Find(formFields,
                       {i \in 1..Len(formFields) : formFields[i].isPrimaryKey})
    IN  \/ ToLowerCase(table.primaryKey) = "id"
        \/ formPK # <<>> /\ ToLowerCase(table.primaryKey) = ToLowerCase(formPK[1].name)

\* a primary key test that only accepts the name of the form's key
PrimaryKeyMatchNameOnly(formFields, table) ==
    LET formPK == Find(formFields,
                       {i \in 1..Len(formFields) : formFields[i].isPrimaryKey})
    IN  IF formPK # <<>>
           THEN ToLowerCase(table.primaryKey) = ToLowerCase(formPK[1].name)
           ELSE FALSE

\* the primary key test: false when the form has no primary key field
PrimaryKeyMatch(formFields, table) ==
    LET formPK == Find(formFields,
                       {i \in 1..Len(formFields) : formFields[i].isPrimaryKey})
    IN  IF formPK # <<>>
           THEN \/ ToLowerCase(table.primaryKey) = ToLowerCase(formPK[1].name)
                \/ ToLowerCase(table.primaryKey) = "id"
           ELSE FALSE

\* a report that is compatible whenever no column is missing
IsCompatibleIgnoresKey(missingColumns, primaryKeyMatch) == Len(missingColumns) = 0

\* `missingColumns.length === 0 && primaryKeyMatch`
IsCompatible(missingColumns, primaryKeyMatch) == Len(missingColumns) = 0 /\ primaryKeyMatch

\* a new-table report that finds no key to match
NewTableReportNoKey ==
    [compatible |-> FALSE, missingColumns |-> <<>>, extraColumns |-> <<>>,
     typeMismatches |-> <<>>, primaryKeyMatch |-> FALSE]

\* the report for a table that does not exist
NewTableReport ==
    [compatible |-> TRUE, missingColumns |-> <<>>, extraColumns |-> <<>>,
     typeMismatches |-> <<>>, primaryKeyMatch |-> TRUE]

\* the report validateSchemaCompatibility builds; `table` is <<>> when the
\* lookup found none
CompatibilityReport(formFields, table) ==
    IF table = <<>> THEN NewTableReport
    ELSE LET missingColumns == MissingColumns(formFields, table[1])
             primaryKeyMatch == PrimaryKeyMatch(formFields, table[1])
         IN  [compatible |-> IsCompatible(missingColumns, primaryKeyMatch),
              missingColumns |-> missingColumns,
              extraColumns |-> ExtraColumns(formFields, table[1]),
              typeMismatches |-> <<>>,
              primaryKeyMatch |-> primaryKeyMatch]

\* validateSchemaCompatibility(formFields, targetSchema, targetTable): throws
\* 'Not connected to database' without a connection
validateSchemaCompatibility(formFields, targetSchema, targetTable) ==
    /\ dbCall' =
          IF currentConnection = <<>>
             THEN DbCall("validate", formFields, targetSchema, targetTable, TRUE, <<>>)
             ELSE DbCall("validate", formFields, targetSchema, targetTable, FALSE,
                         <<CompatibilityReport(formFields,
                                               FindTable(targetSchema, targetTable))>>)
    /\ UNCHANGED <<currentConnection, schemas>>
    /\ UNCHANGED <<vars, clientVars, authVars>>

\* ---------------------------------------------------------- type mapper
\* the keys of the typeMap object literal and their values
typeMap ==
    [text |-> "TEXT", integer |-> "INTEGER", decimal |-> "NUMERIC", date |-> "DATE",
     datetime |-> "TIMESTAMPTZ", select_one |-> "TEXT", select_multiple |-> "TEXT[]",
     geopoint |-> "GEOGRAPHY(POINT, 4326)", calculate |-> "TEXT"]

\* property names every object literal inherits from Object.prototype
\* (those among the inputs of the model)
ObjectPrototypeKeys == {"constructor", "toString"}

\* the function object an object literal inherits under a key, as a token
InheritedFunction(key) ==
    IF key = "constructor" THEN "[Function: Object]" ELSE "[Function: toString]"

\* map[key] of JavaScript: <<v>> for the own property, else for the inherited
\* one (a function), and <<>> for undefined
PropertyOf(map, key) ==
    IF key \in DOMAIN map THEN <<map[key]>>
    ELSE IF key \in ObjectPrototypeKeys THEN <<InheritedFunction(key)>>
    ELSE <<>>

\* `value || fallback`: undefined is falsy, every string of typeMap and every
\* function is truthy
OrElse(value, fallback) == IF value = <<>> THEN fallback ELSE value[1]

\* mapFieldTypeToPostgres of the mock module: `typeMap[fieldType] || 'TEXT'`
mapFieldTypeToPostgres(fieldType) == OrElse(PropertyOf(typeMap, fieldType), "TEXT")

\* mapFieldTypeToPostgres of the API module, used by its createTable: the
\* same object literal and the same lookup
apiMapFieldTypeToPostgres(fieldType) == OrElse(PropertyOf(typeMap, fieldType), "TEXT")

\* field types passed to the mappers: the nine of SurveyCTOField, and strings
\* outside them
FieldTypes ==
    {"text", "integer", "decimal", "date", "datetime", "select_one",
     "select_multiple", "geopoint", "calculate"}
OtherFieldTypes == {"", "note", "barcode", "constructor", "toString"}

\* a call of the mock module's mapper
MapFieldType(fieldType) ==
    /\ dbCall' = DbCall("mapFieldTypeToPostgres", <<>>, "", "", FALSE,
                        <<[fieldType |-> fieldType,
                           type |-> mapFieldTypeToPostgres(fieldType)]>>)
    /\ UNCHANGED <<currentConnection, schemas>>
    /\ UNCHANGED <<vars, clientVars, authVars>>

\* a call of the API module's mapper
ApiMapFieldType(fieldType) ==
    /\ dbCall' = DbCall("apiMapFieldTypeToPostgres", <<>>, "", "", FALSE,
                        <<[fieldType |-> fieldType,
                           type |-> apiMapFieldTypeToPostgres(fieldType)]>>)
    /\ UNCHANGED <<currentConnection, schemas>>
    /\ UNCHANGED <<vars, clientVars, authVars>>

DbNext ==
    \/ \E credentials \in CredentialChoices : connectPostgres(credentials)
    \/ disconnect
    \/ \E fieldType \in FieldTypes \cup OtherFieldTypes : MapFieldType(fieldType)
    \/ \E fieldType \in FieldTypes \cup OtherFieldTypes : ApiMapFieldType(fieldType)
    \/ \E formFields \in FormFieldLists, targetSchema \in SchemaNames,
          targetTable \in TableNames :
             validateSchemaCompatibility(formFields, targetSchema, targetTable)

DbSpec == Init /\ [][DbNext]_allVars

\* ------------------------------------------- the validator on any catalog
\* a second catalog: small tables, one with an upper-case key, one without a
\* primary key ("" is null)
exampleSchemas ==
    << [name |-> "public",
        tables |-> <<
          [name |-> "people", primaryKey |-> "id",
           columns |-> << Column("id", "text", TRUE),
                          Column("age", "integer", FALSE) >>],
          [name |-> "responses", primaryKey |-> "key",
           columns |-> << Column("key", "text", TRUE),
                          Column("age", "integer", FALSE),
                          Column("created_at", "timestamptz", FALSE) >>],
          [name |-> "legacy", primaryKey |-> "ID",
           columns |-> << Column("ID", "text", TRUE),
                          Column("Age", "integer", FALSE) >>],
          [name |-> "notes", primaryKey |-> "",
           columns |-> << Column("Created_At", "timestamptz", FALSE),
                          Column("income", "numeric", FALSE) >>] >>] >>

Catalogs == {mockSchemas, exampleSchemas}

\* the module loaded over either catalog
CatalogInit ==
    /\ activeJobs = {}
    /\ job = <<>>
    /\ config = <<>>
    /\ processed = <<>>
    /\ timeoutPending = <<>>
    /\ intervalActive = <<>>
    /\ lastCall = NoCall
    /\ syncStatus = "ready"
    /\ clientProgress = <<>>
    /\ retryUntilMs = 0
    /\ nowTick = 0
    /\ pollRef = <<>>
    /\ pollTimers = {}
    /\ requests = <<>>
    /\ backend = <<>>
    /\ now = 0
    /\ attempt = 0
    /\ startedJob = <<>>
    /\ cooldownEnd = 0
    /\ lastEvent = "mount"
    /\ currentConnection = <<>>
    /\ schemas \in Catalogs
    /\ dbCall = NoDbCall
    /\ inMemoryToken = <<>>
    /\ localStorageToken = <<>>
    /\ authCall = NoAuthCall

CatalogSpec == CatalogInit /\ [][DbNext]_allVars

\* the latest call was a validation that returned a report
Validated == dbCall.op = "validate" /\ ~dbCall.thrown
Report == dbCall.result[1]
ValidatedTable == FindTable(dbCall.targetSchema, dbCall.targetTable)

\* C29: every report the validator returns for an existing table has
\* compatible = true exactly when its missingColumns is empty and its
\* primaryKeyMatch is true, whatever its extraColumns and typeMismatches.
C29_CompatibleIff ==
    (Validated /\ ValidatedTable # <<>>) =>
       (Report.compatible <=> (Report.missingColumns = <<>> /\ Report.primaryKeyMatch))

\* a compatible report that lists extra columns
C29_Witness ==
    /\ Validated
    /\ ValidatedTable # <<>>
    /\ Report.compatible
    /\ Report.extraColumns # <<>>

\* the latest call validated against a table that does not exist
ValidatedNewTable == dbCall.op = "validate" /\ ValidatedTable = <<>>

\* the call returned the fully compatible report
ReturnedFullyCompatible ==
    /\ ~dbCall.thrown
    /\ dbCall.result =
          <<[compatible |-> TRUE, missingColumns |-> <<>>, extraColumns |-> <<>>,
             typeMismatches |-> <<>>, primaryKeyMatch |-> TRUE]>>

ValidatedKeyIncomeAgainstIdAge ==
    /\ Validated
    /\ Names(dbCall.formFields) = <<"KEY", "income">>
    /\ dbCall.formFields[1].isPrimaryKey
    /\ ~dbCall.formFields[2].isPrimaryKey
    /\ ValidatedTable # <<>>
    /\ Names(ValidatedTable[1].columns) = <<"id", "age">>
    /\ ValidatedTable[1].primaryKey = "id"

\* C31 (as claimed): validating the fields KEY (primary key), income against
\* the columns id (primary key), age reports income missing, age extra, the
\* primary key matched and the table incompatible.
C31_ExampleReport ==
    ValidatedKeyIncomeAgainstIdAge =>
       /\ Report.missingColumns = <<"income">>
       /\ Report.extraColumns = <<"age">>
       /\ Report.primaryKeyMatch = TRUE
       /\ Report.compatible = FALSE

\* C31 (amended): that validation reports both KEY and income missing (no
\* column is named KEY in any letter case), age extra, the primary key
\* matched and the table incompatible.
C31_ExampleReportKeyMissing ==
    ValidatedKeyIncomeAgainstIdAge =>
       /\ Report.missingColumns = <<"KEY", "income">>
       /\ Report.extraColumns = <<"age">>
       /\ Report.primaryKeyMatch = TRUE
       /\ Report.compatible = FALSE

\* that validation has returned its report
C31_Witness == ValidatedKeyIncomeAgainstIdAge /\ Report.extraColumns = <<"age">>

\* the names of a list, in order, that equal none of `excluded` ignoring case
RECURSIVE KeepNames(_, _)
KeepNames(names, excluded) ==
    IF names = <<>> THEN <<>>
    ELSE (IF ToLowerCase(Head(names)) \in excluded THEN <<>> ELSE <<Head(names)>>)
            \o KeepNames(Tail(names), excluded)

\* the lower-cased names of a list of fields or columns
LowerNameSet(seq) == {ToLowerCase(seq[i].name) : i \in 1..Len(seq)}

\* C32: for an existing table, missingColumns lists, in source order, the
\* field names that equal no column name ignoring case, and extraColumns
\* lists, in target order, the column names that equal no field name ignoring
\* case and are none of created_at, updated_at, id.
C32_MissingAndExtra ==
    (Validated /\ ValidatedTable # <<>>) =>
       /\ Report.missingColumns =
             KeepNames(Names(dbCall.formFields), LowerNameSet(ValidatedTable[1].columns))
       /\ Report.extraColumns =
             KeepNames(Names(ValidatedTable[1].columns),
                       LowerNameSet(dbCall.formFields) \cup {"created_at", "updated_at", "id"})

\* the fields KEY (primary key), age validated against the columns key, age,
\* created_at: nothing is missing and nothing is extra
C32_Witness ==
    /\ Validated
    /\ Names(dbCall.formFields) = <<"KEY", "age">>
    /\ ValidatedTable # <<>>
    /\ Names(ValidatedTable[1].columns) = <<"key", "age", "created_at">>
    /\ Report.missingColumns = <<>>
    /\ Report.extraColumns = <<>>
    /\ Report.compatible

\* the latest call validated against a table that exists
ValidatedExistingTable == dbCall.op = "validate" /\ ValidatedTable # <<>>

\* the validated fields hold no field marked primary key
NoPrimaryKeyField ==
    \A i \in 1..Len(dbCall.formFields) : ~dbCall.formFields[i].isPrimaryKey

Mapped == dbCall.op \in {"mapFieldTypeToPostgres", "apiMapFieldTypeToPostgres"}

\* the target type the mapping table gives, TEXT for every other input
ExpectedType(fieldType) ==
    CASE fieldType \in {"text", "select_one", "calculate"} -> "TEXT"
      [] fieldType = "integer" -> "INTEGER"
      [] fieldType = "decimal" -> "NUMERIC"
      [] fieldType = "date" -> "DATE"
      [] fieldType = "datetime" -> "TIMESTAMPTZ"
      [] fieldType = "select_multiple" -> "TEXT[]"
      [] fieldType = "geopoint" -> "GEOGRAPHY(POINT, 4326)"
      [] OTHER -> "TEXT"

\* C34: each mapper returns the type of the mapping table for the nine field
\* types and TEXT for every other input, and the mapper of the mock module
\* and the mapper of the table-creation path agree on every input.
C34_MapFieldType ==
    Mapped =>
       /\ dbCall.result[1].type = ExpectedType(dbCall.result[1].fieldType)
       /\ mapFieldTypeToPostgres(dbCall.result[1].fieldType) =
             apiMapFieldTypeToPostgres(dbCall.result[1].fieldType)

\* the step is one taken for job a: its running transition, one tick of its
\* batch timer (with or without a record-level error), or a cancel of a
StepOf(a) == RunningTimeout(a) \/ BatchTick(a) \/ cancelSyncJob(a)

\* C35: a step taken for job a leaves every other job b as it was: its
\* status, counters and errors, its batch cursor and its two timers.
C35_JobsIndependent ==
    [][\A a \in JobIds :
          StepOf(a) =>
             \A b \in DOMAIN job \ {a} :
                /\ job'[b] = job[b]
                /\ processed'[b] = processed[b]
                /\ timeoutPending'[b] = timeoutPending[b]
                /\ intervalActive'[b] = intervalActive[b]]_allVars

\* two jobs run side by side and have made different progress, one of them
\* with a record-level error
C35_Witness ==
    \E a \in DOMAIN job, b \in DOMAIN job :
       /\ a # b
       /\ job[a].status = "running"
       /\ job[b].status = "running"
       /\ job[a].processedRecords > job[b].processedRecords
       /\ job[b].processedRecords > 0
       /\ RecordErrorCount(job[a].errors) > 0
       /\ job[b].errors = <<>>

\* C36: a job that is never cancelled is completed in the end, whichever of
\* its two timers fires first; in particular a job is never running with no
\* batch timer left to advance it (no step creates a timer for a job after
\* its start, so such a job stays running for ever).
C36_RunningHasBatchTimer ==
    \A jobId \in DOMAIN job : job[jobId].status = "running" => intervalActive[jobId]

\* C37: while a job is pending its totalRecords and processedRecords are 0;
\* totalRecords is assigned in the step that moves the job from pending to
\* running, in every such step and in no other, so it is assigned once and
\* never changes afterwards.
C37_TotalAssignedOnce ==
    [][/\ \A jobId \in DOMAIN job' :
             job'[jobId].status = "pending" =>
                job'[jobId].totalRecords = 0 /\ job'[jobId].processedRecords = 0
       /\ \A jobId \in DOMAIN job :
             /\ job'[jobId].totalRecords # job[jobId].totalRecords =>
                   job[jobId].status = "pending" /\ job'[jobId].status = "running"
             /\ (job[jobId].status = "pending" /\ job'[jobId].status # "pending") =>
                   /\ job'[jobId].status = "running"
                   /\ job'[jobId].totalRecords \in TotalRecordsChoices
                   /\ job'[jobId].processedRecords = 0
             /\ job[jobId].status # "pending" => job'[jobId].status # "pending"]_allVars

\* a job was given its total, has processed all of it and is completed
C37_Witness ==
    \E jobId \in DOMAIN job :
       /\ job[jobId].status = "completed"
       /\ job[jobId].totalRecords \in TotalRecordsChoices
       /\ job[jobId].processedRecords = job[jobId].totalRecords

\* what a step adds to the three outcome counters of a job
OutcomeDelta(jobId) ==
    (job'[jobId].insertedRecords + job'[jobId].updatedRecords + job'[jobId].skippedRecords)
    - (job[jobId].insertedRecords + job[jobId].updatedRecords + job[jobId].skippedRecords)

\* what a step adds to processedRecords of a job
ProcessedDelta(jobId) == job'[jobId].processedRecords - job[jobId].processedRecords

\* the step appends exactly one error, and it names a record
AppendsOneRecordError(jobId) ==
    /\ Len(job'[jobId].errors) = Len(job[jobId].errors) + 1
    /\ SubSeq(job'[jobId].errors, 1, Len(job[jobId].errors)) = job[jobId].errors
    /\ job'[jobId].errors[Len(job'[jobId].errors)].recordId # ""

\* C38 (as claimed): a step in which a record fails at record level appends
\* exactly one error naming the record and counts the record in
\* processedRecords but in none of the three outcome counters.
C38_FailedRecordUncounted ==
    [][\A jobId \in JobIds :
          RecordsError(jobId) =>
             /\ AppendsOneRecordError(jobId)
             /\ ProcessedDelta(jobId) > 0
             /\ OutcomeDelta(jobId) = ProcessedDelta(jobId) - 1]_allVars

\* C38 (amended): a batch step in which a record-level error is recorded
\* appends exactly one error naming a record and counts every record of the
\* batch in processedRecords and in one of the three outcome counters.
C38_FailedRecordCounted ==
    [][\A jobId \in JobIds :
          RecordsError(jobId) =>
             /\ AppendsOneRecordError(jobId)
             /\ ProcessedDelta(jobId) > 0
             /\ OutcomeDelta(jobId) = ProcessedDelta(jobId)]_allVars

\* a job has finished with a record-level error in its list and its three
\* outcome counters adding up to all of its records
C38_Witness ==
    \E jobId \in DOMAIN job :
       /\ job[jobId].status = "completed"
       /\ RecordErrorCount(job[jobId].errors) > 0
       /\ job[jobId].insertedRecords + job[jobId].updatedRecords
             + job[jobId].skippedRecords = job[jobId].totalRecords

\* the step applies a response (a start or a getProgress reply)
AppliesResponse == lastEvent' \in {"PollReply", "StartReply"}

\* the client has stored a terminal snapshot and shows complete or failed
HoldsTerminalSnapshot ==
    /\ syncStatus \in {"complete", "failed"}
    /\ clientProgress # <<>>
    /\ clientProgress[1].status \in {"completed", "failed"}

\* C39: once the client holds a terminal snapshot and shows complete or
\* failed, a response that arrives later changes neither the stored progress
\* nor the status; and no response lowers the processedRecords the client
\* holds for a job.
C39_NoRegression ==
    [][AppliesResponse =>
          /\ HoldsTerminalSnapshot =>
                clientProgress' = clientProgress /\ syncStatus' = syncStatus
          /\ (/\ clientProgress # <<>>
              /\ clientProgress' # <<>>
              /\ clientProgress'[1].jobId = clientProgress[1].jobId) =>
                clientProgress'[1].processedRecords >= clientProgress[1].processedRecords
      ]_allVars

\* ------------------------------------------------- session and SurveyCTO login
\* a string is a sequence of characters; " " is white space
Texts == {<<>>, <<" ">>, <<"d">>, <<" ", "d">>, <<"d", " ">>}

RECURSIVE trimStart(_)
trimStart(text) ==
    IF text # <<>> /\ Head(text) = " " THEN trimStart(Tail(text)) ELSE text

RECURSIVE trimEnd(_)
trimEnd(text) ==
    IF text # <<>> /\ text[Len(text)] = " "
    THEN trimEnd(SubSeq(text, 1, Len(text) - 1))
    ELSE text

\* String.prototype.trim
trim(text) == trimEnd(trimStart(text))

\* `!value?.trim()`: the credential is missing, empty or white space only
Blank(text) == trim(text) = <<>>

SurveyCTOCredentials(serverName, username, password) ==
    [serverName |-> serverName, username |-> username, password |-> password]

SurveyCTOCredentialChoices ==
    { SurveyCTOCredentials(serverName, username, password) :
        serverName \in Texts, username \in {<<>>, <<"d">>},
        password \in {<<" ">>, <<"d">>} }

SessionTokens == {"token-a", "token-b"}

\* SurveyCTOAuthResponse; sessionToken <<>> is absent, error "" is absent
SurveyCTOAuthResponse(success, sessionToken, error) ==
    [success |-> success, sessionToken |-> sessionToken, error |-> error]

\* getSessionToken(): the token in memory, else the one in localStorage
StoredSessionToken ==
    IF inMemoryToken # <<>> THEN inMemoryToken ELSE localStorageToken

\* setSessionToken(token) in a browser: memory and localStorage both follow
setSessionToken(token) ==
    /\ inMemoryToken' = token
    /\ localStorageToken' = token

\* the validation every authenticateSurveyCTO starts with: the error of the
\* first blank credential, "" when all three are given
ValidationError(credentials) ==
    IF Blank(credentials.serverName) THEN "Server name is required"
    ELSE IF Blank(credentials.username) THEN "Username is required"
    ELSE IF Blank(credentials.password) THEN "Password is required"
    ELSE ""

AuthIdle == authCall.pc \in {"idle", "done"}

\* the call as it stands at its first await: returned with the validation
\* error, or waiting for the session request
Begun(source, credentials) ==
    LET error == ValidationError(credentials)
    IN  IF error # ""
        THEN AuthCall(source, "done", <<credentials>>, StoredSessionToken,
                      <<SurveyCTOAuthResponse(FALSE, <<>>, error)>>)
        ELSE AuthCall(source, "session", <<credentials>>, StoredSessionToken, <<>>)

Returns(response) == authCall' = [authCall EXCEPT !.pc = "done", !.result = <<response>>]

\* authenticateSurveyCTO of src/api/surveycto.ts, up to `await apiRequest('/sessions')`
authenticateSurveyCTO(credentials) ==
    /\ AuthIdle
    /\ authCall' = Begun("surveycto.ts", credentials)
    /\ UNCHANGED <<inMemoryToken, localStorageToken>>
    /\ UNCHANGED <<vars, clientVars, dbVars>>

\* what apiRequest gives back: it throws, or it resolves with a payload
Thrown(message) == [thrown |-> TRUE, message |-> message, payload |-> <<>>]
Resolved(payload) == [thrown |-> FALSE, message |-> "", payload |-> <<payload>>]

SessionReplies ==
    {Thrown("Unauthorized")}
      \cup {Resolved([session_token |-> <<>>])}
      \cup {Resolved([session_token |-> <<token>>]) : token \in SessionTokens}

\* the session request settles: catch, or the missing-token return, or
\* setSessionToken and the forms request
SessionSettles(reply) ==
    /\ authCall.source = "surveycto.ts"
    /\ authCall.pc = "session"
    /\ IF reply.thrown
       THEN /\ Returns(SurveyCTOAuthResponse(FALSE, <<>>, reply.message))
            /\ UNCHANGED <<inMemoryToken, localStorageToken>>
       ELSE LET session == reply.payload[1]
            IN  IF session.session_token = <<>>
                THEN /\ Returns(SurveyCTOAuthResponse(FALSE, <<>>, "Authentication failed"))
                     /\ UNCHANGED <<inMemoryToken, localStorageToken>>
                ELSE /\ setSessionToken(session.session_token)
                     /\ authCall' = [authCall EXCEPT !.pc = "forms",
                                                     !.result = <<>>]
    /\ UNCHANGED <<vars, clientVars, dbVars>>

FormsReplies == {Thrown("Request failed"), Resolved(<<>>)}

\* the forms request settles: success with the token now stored, or catch
FormsSettles(reply) ==
    /\ authCall.source = "surveycto.ts"
    /\ authCall.pc = "forms"
    /\ IF reply.thrown
       THEN Returns(SurveyCTOAuthResponse(FALSE, <<>>, reply.message))
       ELSE Returns(SurveyCTOAuthResponse(TRUE, StoredSessionToken, ""))
    /\ UNCHANGED <<inMemoryToken, localStorageToken>>
    /\ UNCHANGED <<vars, clientVars, dbVars>>

\* authenticateSurveyCTO of the backend-session variant, up to its one await
authenticateSurveyCTOBackend(credentials) ==
    /\ AuthIdle
    /\ authCall' = Begun("backend", credentials)
    /\ UNCHANGED <<inMemoryToken, localStorageToken>>
    /\ UNCHANGED <<vars, clientVars, dbVars>>

BackendReplies ==
    {Thrown("Unauthorized")}
      \cup { Resolved(SurveyCTOAuthResponse(success, sessionToken, error)) :
               success \in BOOLEAN,
               sessionToken \in {<<>>} \cup {<<token>> : token \in SessionTokens},
               error \in {""} }

\* the backend's answer settles the call: the token is stored only on success
BackendSettles(reply) ==
    /\ authCall.source = "backend"
    /\ authCall.pc = "session"
    /\ IF reply.thrown
       THEN /\ Returns(SurveyCTOAuthResponse(FALSE, <<>>, reply.message))
            /\ UNCHANGED <<inMemoryToken, localStorageToken>>
       ELSE LET response == reply.payload[1]
            IN  /\ IF response.success /\ response.sessionToken # <<>>
                   THEN setSessionToken(response.sessionToken)
                   ELSE UNCHANGED <<inMemoryToken, localStorageToken>>
                /\ Returns(response)
    /\ UNCHANGED <<vars, clientVars, dbVars>>

\* logout(), between two logins
logout ==
    /\ AuthIdle
    /\ setSessionToken(<<>>)
    /\ UNCHANGED authCall
    /\ UNCHANGED <<vars, clientVars, dbVars>>

\* isAuthenticated() is getSessionToken() !== null
isAuthenticated == StoredSessionToken # <<>>

\* getSessionToken(): a token found in localStorage is cached in memory
getSessionToken ==
    /\ inMemoryToken = <<>>
    /\ localStorageToken # <<>>
    /\ inMemoryToken' = localStorageToken
    /\ UNCHANGED <<localStorageToken, authCall>>
    /\ UNCHANGED <<vars, clientVars, dbVars>>

\* the page is loaded again: the module starts over, localStorage stays
PageLoad ==
    /\ inMemoryToken # <<>> \/ authCall # NoAuthCall
    /\ inMemoryToken' = <<>>
    /\ authCall' = NoAuthCall
    /\ UNCHANGED localStorageToken
    /\ UNCHANGED <<vars, clientVars, dbVars>>

AuthNext ==
    \/ \E credentials \in SurveyCTOCredentialChoices : authenticateSurveyCTO(credentials)
    \/ \E reply \in SessionReplies : SessionSettles(reply)
    \/ \E reply \in FormsReplies : FormsSettles(reply)
    \/ \E credentials \in SurveyCTOCredentialChoices :
          authenticateSurveyCTOBackend(credentials)
    \/ \E reply \in BackendReplies : BackendSettles(reply)
    \/ logout
    \/ getSessionToken
    \/ PageLoad

AuthSpec == Init /\ [][AuthNext]_allVars

\* ---- C40: a login reported as failed leaves the stored session token as it
\* was when authenticateSurveyCTO was called (so isAuthenticated() does not
\* become true through it)
ReturnsFailure ==
    /\ authCall.pc # "done"
    /\ authCall'.pc = "done"
    /\ ~authCall'.result[1].success

C40_FailedLoginKeepsToken ==
    [][ReturnsFailure => StoredSessionToken' = authCall'.before]_allVars

\* the same statement for the backend-session variant alone, which stores the
\* token only after the backend reported success
BackendKeepsTokenOnFailure ==
    [][(ReturnsFailure /\ authCall.source = "backend")
          => StoredSessionToken' = authCall'.before]_allVars

\* a login that failed at the forms request although the session was created
FormsRequestFailed ==
    /\ authCall.source = "surveycto.ts"
    /\ authCall.pc = "done"
    /\ ~authCall.result[1].success
    /\ authCall.result[1].error = "Request failed"
    /\ authCall.before = <<>>
    /\ isAuthenticated

====
